---- MODULE Spec2Model ----
(***************************************************************************)
(* collier: a command line tool that mines Metaplex metadata accounts of   *)
(* a creator into a local sqlite store (mine-metadata), resolves the       *)
(* holder of every known mint (mine-holders), lists the metadata uris      *)
(* (list-metadata-uris) and builds, signs and simulates a creators update  *)
(* for every known metadata account (rescue-slatts).                       *)
(*                                                                         *)
(* One command runs at a time against the sqlite file; the file persists   *)
(* between commands.  The remote node and the file system are the          *)
(* environment: every RPC answer, the readability of the key file and the  *)
(* success of every sqlite statement are chosen nondeterministically.      *)
(***************************************************************************)
EXTENDS Integers, Sequences, FiniteSets, TLC

\* ------------------------------------------------------------------------
\* Bounded universes of the values that flow through the program.
\* ------------------------------------------------------------------------
Addrs      == {"A1", "A2"}          \* metadata account addresses
Mints      == {"M1", "M2"}          \* mint addresses
CreatorIds == {"C1", "C2"}          \* creator identities
Owners     == {"O1", "O2"}          \* token account owners
Amounts    == {"1", "2"}            \* ui amount strings of a token account

\* Longest getTokenLargestAccounts answer that is enumerated.
MaxTokenAccounts == 2

\* ------------------------------------------------------------------------
\* Account payloads.
\* ------------------------------------------------------------------------
Cr(a, v, s) == [address |-> a, verified |-> v, share |-> s]

None == [some |-> FALSE, vec |-> <<>>]
Some(v) == [some |-> TRUE, vec |-> v]

\* Creator vectors carried by the accounts that a program scan enumerates.
ScanCreators ==
    { None,
      Some(<<Cr("C1", TRUE, 50), Cr("C2", FALSE, 50)>>),
      Some(<<Cr("C2", TRUE, 50), Cr("C1", FALSE, 50)>>) }

\* Creator vectors carried by the accounts that get_account returns.
FetchCreators ==
    { None,
      Some(<<Cr("C1", TRUE, 50), Cr("C2", FALSE, 50)>>),
      Some(<<Cr("C1", TRUE, 0), Cr("C2", FALSE, 40),
             Cr("C2", FALSE, 30), Cr("C2", FALSE, 30)>>),
      Some(<<Cr("C1", TRUE, 25), Cr("C2", FALSE, 25),
             Cr("C2", FALSE, 25), Cr("C2", FALSE, 25)>>) }

\* A metadata account payload: wellformed says whether the bytes deserialize
\* as Metadata; mint and creators are the bytes found at the fields' offsets.
MetadataPayload(w, m, c) == [wellformed |-> w, mint |-> m, creators |-> c]

ScanPayloads ==
    { MetadataPayload(TRUE, m, c) : m \in Mints, c \in ScanCreators }
    \cup { MetadataPayload(FALSE, "M1", c) : c \in ScanCreators }

FetchPayloads ==
    { MetadataPayload(TRUE, "M1", c) : c \in FetchCreators }
    \cup { MetadataPayload(FALSE, "M1", None) }

\* The metadata accounts that exist on the ledger: address -> payload.
RemoteSnapshots == UNION { [D -> ScanPayloads] : D \in SUBSET Addrs }

\* Every order in which the node may list the addresses of S.
Orders(S) ==
    { s \in [1..Cardinality(S) -> S] : \A i, j \in DOMAIN s : s[i] = s[j] => i = j }

\* ------------------------------------------------------------------------
\* Borsh layout of a Metadata account and the memcmp filter of the scan.
\* ------------------------------------------------------------------------
\* Size of one Creator entry: address, verified, share.
CreatorLen == 32 + 1 + 1

\* Offset of the first entry of the creators vector in the account bytes.
CreatorsVecOffset ==
    1 + 32 + 32 + 4 + 32 + 4 + 200 + 4 + 10 + 2 + 1 + 4

\* Offset of the i-th creator's address in the account bytes.
CreatorOffset(i) == CreatorsVecOffset + (i - 1) * CreatorLen

\* The offset the scan hands to the node.
MemcmpOffset == 1 + 32 + 32 + 4 + 32 + 4 + 200 + 4 + 10 + 2 + 1 + 4

\* The node's memcmp: the 32 bytes at offset equal the given key.
MemcmpMatch(data, offset, bytes) ==
    /\ data.creators.some
    /\ \E i \in 1..Len(data.creators.vec) :
          /\ CreatorOffset(i) = offset
          /\ data.creators.vec[i].address = bytes

\* Metadata::deserialize
DeserializesAnything(data) == TRUE
Deserializes(data) == data.wellformed

\* ------------------------------------------------------------------------
\* The sqlite store.  A table is the sequence of its rows in rowid order.
\* ------------------------------------------------------------------------
MetaRow(a, m)    == [metadata_address |-> a, mint_address |-> m]
CreatorRow(c, a) == [creator_address |-> c, metadata_address |-> a]
HolderRow(m, h)  == [mint_address |-> m, holder_address |-> h]

\* INSERT OR REPLACE INTO metadata: metadata_address is the primary key and
\* mint_address is unique, so every row that collides on either goes first.
UpsertMetadataPkOnly(t, a, m) ==
    LET Other(r) == r.metadata_address # a
    IN  Append(SelectSeq(t, Other), MetaRow(a, m))
UpsertMetadata(t, a, m) ==
    LET Other(r) == r.metadata_address # a /\ r.mint_address # m
    IN  Append(SelectSeq(t, Other), MetaRow(a, m))

\* INSERT OR REPLACE INTO creators: the pair is unique.
UpsertCreatorPlainInsert(t, c, a) == Append(t, CreatorRow(c, a))
UpsertCreator(t, c, a) ==
    LET Other(r) == ~(r.creator_address = c /\ r.metadata_address = a)
    IN  Append(SelectSeq(t, Other), CreatorRow(c, a))

\* DELETE FROM holders WHERE mint_address = ?1
DeleteHolderNothing(t, m) == t
DeleteHolderAll(t, m) == <<>>
DeleteHolder(t, m) ==
    LET Other(r) == r.mint_address # m
    IN  SelectSeq(t, Other)

\* INSERT INTO holders (mint_address, holder_address) VALUES (?1, ?2)
InsertHolder(t, m, h) == Append(t, HolderRow(m, h))

\* SELECT mint_address FROM metadata / SELECT metadata_address FROM metadata
SelectMints(t) == [i \in DOMAIN t |-> t[i].mint_address]
SelectAddresses(t) == [i \in DOMAIN t |-> t[i].metadata_address]

\* A token account payload and Account::unpack.
TokenPayloads ==
    { [wellformed |-> TRUE, owner |-> o] : o \in Owners }
    \cup { [wellformed |-> FALSE, owner |-> "O1"] }
Unpacks(data) == data.wellformed

\* The answers of getTokenLargestAccounts that are enumerated: the accounts
\* of one answer are distinct, the i-th has address i.
RpcTokenAccounts(address, amount) == [address |-> address, amount |-> amount]
LargestAnswers ==
    UNION { { [i \in 1..n |-> RpcTokenAccounts(i, amounts[i])] :
                amounts \in [1..n -> Amounts] } : n \in 0..MaxTokenAccounts }

\* token_account.amount == "1"
QualifiesAnyAmount(token_account) == token_account.amount \in Amounts
Qualifies(token_account) == token_account.amount = "1"

\* The retry loop around rpc.get_account gives up `if tries > 5`.
MaxTries == 5
GivesUp(tries) == tries > MaxTries

\* The remediation goes on only `if creators.len() != 4` is false.
ExpectedCreators == 4
HasExpectedCreatorsOrFewer(vec) == Len(vec) <= ExpectedCreators
HasExpectedCreators(vec) == Len(vec) = ExpectedCreators

\* The RPC methods behind rpc.get_account, rpc.get_latest_blockhash and
\* rpc.simulate_transaction.
GetAccountMethod == "getAccountInfo"
GetLatestBlockhashMethod == "getLatestBlockhash"
SendMethod == "sendTransaction"
SimulateMethod == "simulateTransaction"

\* update_authority.pubkey() of the key file
UpdateAuthority == "UA"

\* The creators of the update: creators[0] and the update authority.
RescuedCreators(vec) == <<vec[1], Cr(UpdateAuthority, TRUE, 100)>>

VARIABLES
    schema,             \* the tables that exist in the sqlite file
    metadata,           \* table metadata
    creators,           \* table creators
    holders,            \* table holders
    command,            \* the command that runs or ran last
    pc,                 \* where the command stands
    result,             \* how the command ended
    creator_address,    \* opts.creator_address of mine-metadata
    remote,             \* the ledger's metadata accounts at the scan
    response,           \* what the scan returned
    metadata_accounts,  \* what is left of the scan's answer
    start,              \* metadata and creators when mine-metadata started
    pass,               \* number of the mine-metadata pass over one snapshot
    first,              \* metadata and creators as the first pass left them
    rows,               \* what is left of the SELECT over table metadata
    mint_address,       \* mine-holders: the mint of the current row
    token_accounts,     \* mine-holders: what is left of the largest accounts
    before,             \* mine-holders: table holders when the run started
    largest,            \* mine-holders: the node's answer for each mint
    decoded,            \* mine-holders: the owners unpacked for each mint
    metadata_address,   \* rescue, list: the address of the current row
    tries,              \* rescue, list: the retry loop's counter
    account,            \* rescue, list: what the retry loop broke with
    keyfile,            \* rescue: whether the key file can be read
    fetches,            \* rescue, list: get_account calls made per address
    outcome,            \* rescue, list: how far each address got
    checkpoints,        \* rescue: addresses a blockhash was fetched for
    transactions,       \* rescue: the transactions that were signed
    simulated,          \* rescue: addresses a transaction was simulated for
    diagnosed,          \* rescue, list: addresses reported with eprintln
    printed,            \* list: addresses printed with their uri
    requests            \* rescue, list: the RPC methods sent to the node

storeVars == <<schema, metadata, creators, holders>>
ctlVars   == <<command, pc, result>>
minerVars == <<creator_address, remote, response, metadata_accounts, start>>
twiceVars == <<pass, first>>
holderVars == <<mint_address, token_accounts, before, largest, decoded>>
fetchVars == <<metadata_address, tries, account, fetches, outcome, diagnosed>>
rescueVars == <<keyfile, checkpoints, transactions, simulated, printed>>
readVars == <<rows, holderVars, fetchVars, rescueVars, requests>>
vars == <<storeVars, ctlVars, minerVars, twiceVars, readVars>>

\* Option<Account>: None, or Some(account) with the account's data.
NoAccount == [some |-> FALSE, data |-> MetadataPayload(FALSE, "M1", None)]
SomeAccount(data) == [some |-> TRUE, data |-> data]

NoStart == [metadata |-> <<>>, creators |-> <<>>]
NoFirst == [metadata |-> <<>>, creators |-> <<>>, result |-> "none"]

\* A fresh sqlite file, no command run yet.
Init ==
    /\ schema = {}
    /\ metadata = <<>>
    /\ creators = <<>>
    /\ holders = <<>>
    /\ command = "none"
    /\ pc = "idle"
    /\ result = "none"
    /\ creator_address = "C1"
    /\ remote = <<>>
    /\ response = <<>>
    /\ metadata_accounts = <<>>
    /\ start = NoStart
    /\ pass = 0
    /\ first = NoFirst
    /\ rows = <<>>
    /\ mint_address = "M1"
    /\ token_accounts = <<>>
    /\ before = <<>>
    /\ largest = [m \in Mints |-> <<>>]
    /\ decoded = [m \in Mints |-> <<>>]
    /\ metadata_address = "A1"
    /\ tries = 0
    /\ account = NoAccount
    /\ keyfile = TRUE
    /\ fetches = [a \in Addrs |-> 0]
    /\ outcome = [a \in Addrs |-> "Pending"]
    /\ checkpoints = {}
    /\ transactions = {}
    /\ simulated = {}
    /\ diagnosed = {}
    /\ printed = {}
    /\ requests = {}

\* The process exits: Ok(()) or the error that `?` returned from main.
Exit(r) ==
    /\ pc' = "done"
    /\ result' = r

Idle == pc \in {"idle", "done"}

\* ------------------------------------------------------------------------
\* mine-metadata
\* ------------------------------------------------------------------------
\* What get_program_accounts_with_config answers for the filter.
ScanAnswers(snapshot, creator) ==
    LET matching == { a \in DOMAIN snapshot :
                         MemcmpMatch(snapshot[a], MemcmpOffset, creator) }
    IN  { [i \in DOMAIN o |-> [address |-> o[i], data |-> snapshot[o[i]]]] :
            o \in Orders(matching) }

\* Connection::open and the two CREATE TABLE IF NOT EXISTS.
MineMetadataStart ==
    /\ Idle
    /\ command' = "mine_metadata"
    /\ \E c \in CreatorIds : creator_address' = c
    /\ remote' = <<>>
    /\ response' = <<>>
    /\ metadata_accounts' = <<>>
    /\ start' = [metadata |-> metadata, creators |-> creators]
    /\ UNCHANGED <<metadata, creators, holders, twiceVars, readVars>>
    /\ \/ /\ schema' = schema
          /\ Exit("StoreError")
       \/ /\ schema' = schema \cup {"creators"}
          /\ Exit("StoreError")
       \/ /\ schema' = schema \cup {"creators", "metadata"}
          /\ pc' = "mine_metadata_scan"
          /\ result' = "none"

\* rpc.get_program_accounts_with_config(...)?
MineMetadataScan ==
    /\ pc = "mine_metadata_scan"
    /\ \E snapshot \in RemoteSnapshots :
          /\ remote' = snapshot
          /\ \/ /\ response' = <<>>
                /\ metadata_accounts' = <<>>
                /\ Exit("NetworkError")
             \/ /\ \E answer \in ScanAnswers(snapshot, creator_address) :
                      /\ response' = answer
                      /\ metadata_accounts' = answer
                /\ pc' = "mine_metadata_loop"
                /\ result' = "none"
    /\ UNCHANGED <<storeVars, command, creator_address, start, twiceVars,
                   readVars>>

\* One turn of `for (metadata_address, metadata) in metadata_accounts`.
MineMetadataUpsert ==
    /\ pc = "mine_metadata_loop"
    /\ metadata_accounts # <<>>
    /\ LET item == Head(metadata_accounts)
           upserted == UpsertMetadata(metadata, item.address, item.data.mint)
       IN  \/ /\ ~Deserializes(item.data)
              /\ UNCHANGED <<metadata, creators, metadata_accounts>>
              /\ Exit("DecodeError")
           \/ /\ Deserializes(item.data)
              /\ UNCHANGED <<metadata, creators, metadata_accounts>>
              /\ Exit("StoreError")
           \/ /\ Deserializes(item.data)
              /\ metadata' = upserted
              /\ UNCHANGED <<creators, metadata_accounts>>
              /\ Exit("StoreError")
           \/ /\ Deserializes(item.data)
              /\ metadata' = upserted
              /\ creators' = UpsertCreator(creators, creator_address, item.address)
              /\ metadata_accounts' = Tail(metadata_accounts)
              /\ UNCHANGED <<pc, result>>
    /\ UNCHANGED <<schema, holders, command, creator_address, remote, response,
                   start, twiceVars, readVars>>

\* The answer is used up: Ok(()).
MineMetadataFinish ==
    /\ pc = "mine_metadata_loop"
    /\ metadata_accounts = <<>>
    /\ Exit("Ok")
    /\ UNCHANGED <<storeVars, command, minerVars, twiceVars, readVars>>

NextMiner ==
    \/ MineMetadataStart
    \/ MineMetadataScan
    \/ MineMetadataUpsert
    \/ MineMetadataFinish

\* Any number of mine-metadata runs on a fresh sqlite file.
SpecMiner == Init /\ [][NextMiner]_vars

\* mine-metadata is run once more while the node answers the scan exactly
\* as it did for the run that just ended.
MineMetadataAgain ==
    /\ pc = "done"
    /\ command = "mine_metadata"
    /\ result \in {"Ok", "DecodeError"}
    /\ pass = 0
    /\ pass' = 1
    /\ first' = [metadata |-> metadata, creators |-> creators, result |-> result]
    /\ metadata_accounts' = response
    /\ start' = [metadata |-> metadata, creators |-> creators]
    /\ pc' = "mine_metadata_loop"
    /\ result' = "none"
    /\ UNCHANGED <<storeVars, command, creator_address, remote, response, readVars>>

NextTwice ==
    \/ (pass = 0 /\ MineMetadataStart)
    \/ MineMetadataScan
    \/ MineMetadataUpsert
    \/ MineMetadataFinish
    \/ MineMetadataAgain

\* Mining runs on a fresh sqlite file, the last of them repeated.
SpecTwice == Init /\ [][NextTwice]_vars

\* ------------------------------------------------------------------------
\* The states a sqlite file can be in when a command starts: the tables as
\* runs of mine-metadata and mine-holders leave them.  Keys are unique, every
\* metadata row came with a creators row, and holders rows exist only if
\* metadata rows did.
\* ------------------------------------------------------------------------
MetadataTables ==
    { t \in UNION { [1..n -> [metadata_address : Addrs, mint_address : Mints]] :
                      n \in 0..Cardinality(Addrs) } :
        \A i, j \in DOMAIN t :
            (\/ t[i].metadata_address = t[j].metadata_address
             \/ t[i].mint_address = t[j].mint_address) => i = j }

HoldersTables ==
    { t \in UNION { [1..n -> [mint_address : Mints, holder_address : Owners]] :
                      n \in 0..Cardinality(Mints) } :
        \A i, j \in DOMAIN t : t[i].mint_address = t[j].mint_address => i = j }

InitControl ==
    /\ command = "none"
    /\ pc = "idle"
    /\ result = "none"
    /\ creator_address = "C1"
    /\ remote = <<>>
    /\ response = <<>>
    /\ metadata_accounts = <<>>
    /\ start = NoStart
    /\ pass = 0
    /\ first = NoFirst
    /\ rows = <<>>
    /\ mint_address = "M1"
    /\ token_accounts = <<>>
    /\ before = <<>>
    /\ largest = [m \in Mints |-> <<>>]
    /\ decoded = [m \in Mints |-> <<>>]
    /\ metadata_address = "A1"
    /\ tries = 0
    /\ account = NoAccount
    /\ keyfile = TRUE
    /\ fetches = [a \in Addrs |-> 0]
    /\ outcome = [a \in Addrs |-> "Pending"]
    /\ checkpoints = {}
    /\ transactions = {}
    /\ simulated = {}
    /\ diagnosed = {}
    /\ printed = {}
    /\ requests = {}

InitStore ==
    /\ InitControl
    /\ \/ /\ schema = {}
          /\ metadata = <<>>
          /\ creators = <<>>
          /\ holders = <<>>
       \/ /\ schema \in { {"creators", "metadata"},
                          {"creators", "metadata", "holders"} }
          /\ metadata \in MetadataTables
          /\ creators = [i \in DOMAIN metadata |->
                            CreatorRow("C1", metadata[i].metadata_address)]
          /\ holders \in HoldersTables
          /\ holders # <<>> => metadata # <<>> /\ "holders" \in schema

\* ------------------------------------------------------------------------
\* mine-holders
\* ------------------------------------------------------------------------
\* Connection::open, CREATE TABLE IF NOT EXISTS holders, and the SELECT,
\* which fails when table metadata does not exist.
MineHoldersStart ==
    /\ Idle
    /\ command' = "mine_holders"
    /\ mint_address' = "M1"
    /\ token_accounts' = <<>>
    /\ before' = holders
    /\ largest' = [m \in Mints |-> <<>>]
    /\ decoded' = [m \in Mints |-> <<>>]
    /\ UNCHANGED <<metadata, creators, holders, minerVars, twiceVars, fetchVars,
                   rescueVars, requests>>
    /\ \/ /\ schema' = schema
          /\ rows' = <<>>
          /\ Exit("StoreError")
       \/ /\ schema' = schema \cup {"holders"}
          /\ rows' = <<>>
          /\ Exit("StoreError")
       \/ /\ "metadata" \in schema
          /\ schema' = schema \cup {"holders"}
          /\ rows' = SelectMints(metadata)
          /\ pc' = "mine_holders_rows"
          /\ result' = "none"

\* rows.next() is None: Ok(()).
MineHoldersFinish ==
    /\ pc = "mine_holders_rows"
    /\ rows = <<>>
    /\ Exit("Ok")
    /\ UNCHANGED <<storeVars, command, minerVars, twiceVars, readVars>>

\* The next row and get_token_largest_accounts(&rpc, mint_address)?
MineHoldersLargest ==
    /\ pc = "mine_holders_rows"
    /\ rows # <<>>
    /\ mint_address' = Head(rows)
    /\ rows' = Tail(rows)
    /\ \/ /\ UNCHANGED <<token_accounts, largest>>
          /\ Exit("NetworkError")
       \/ /\ \E answer \in LargestAnswers :
                /\ token_accounts' = answer
                /\ largest' = [largest EXCEPT ![Head(rows)] = answer]
          /\ pc' = "mine_holders_tokens"
          /\ result' = "none"
    /\ UNCHANGED <<storeVars, command, minerVars, twiceVars, before, decoded,
                   fetchVars, rescueVars, requests>>

\* One turn of `for token_account in token_accounts`.
MineHoldersToken ==
    /\ pc = "mine_holders_tokens"
    /\ token_accounts # <<>>
    /\ LET token_account == Head(token_accounts)
           deleted == DeleteHolder(holders, mint_address)
       IN  \/ /\ ~Qualifies(token_account)
              /\ token_accounts' = Tail(token_accounts)
              /\ UNCHANGED <<holders, decoded, pc, result>>
           \/ /\ Qualifies(token_account)
              /\ UNCHANGED <<holders, decoded, token_accounts>>
              /\ Exit("NetworkError")
           \/ /\ Qualifies(token_account)
              /\ \E data \in TokenPayloads :
                    \/ /\ ~Unpacks(data)
                       /\ UNCHANGED <<holders, decoded, token_accounts>>
                       /\ Exit("DecodeError")
                    \/ /\ Unpacks(data)
                       /\ decoded' = [decoded EXCEPT ![mint_address] =
                                         Append(@, data.owner)]
                       /\ \/ /\ UNCHANGED <<holders, token_accounts>>
                             /\ Exit("StoreError")
                          \/ /\ holders' = deleted
                             /\ UNCHANGED token_accounts
                             /\ Exit("StoreError")
                          \/ /\ holders' = InsertHolder(deleted, mint_address,
                                                        data.owner)
                             /\ token_accounts' = Tail(token_accounts)
                             /\ UNCHANGED <<pc, result>>
    /\ UNCHANGED <<schema, metadata, creators, command, minerVars, twiceVars,
                   rows, mint_address, before, largest, fetchVars, rescueVars,
                   requests>>

\* The answer is used up: back to the rows.
MineHoldersTokensDone ==
    /\ pc = "mine_holders_tokens"
    /\ token_accounts = <<>>
    /\ pc' = "mine_holders_rows"
    /\ UNCHANGED <<storeVars, command, result, minerVars, twiceVars, readVars>>

NextHolders ==
    \/ MineHoldersStart
    \/ MineHoldersFinish
    \/ MineHoldersLargest
    \/ MineHoldersToken
    \/ MineHoldersTokensDone

\* Any number of mine-holders runs on a sqlite file that mining left behind.
SpecHolders == InitStore /\ [][NextHolders]_vars

\* ------------------------------------------------------------------------
\* The loop over table metadata that rescue-slatts and list-metadata-uris
\* share: prepare the SELECT, take a row, fetch its account with retries.
\* ------------------------------------------------------------------------
ResetReadBack ==
    /\ metadata_address' = "A1"
    /\ tries' = 0
    /\ account' = NoAccount
    /\ fetches' = [a \in Addrs |-> 0]
    /\ outcome' = [a \in Addrs |-> "Pending"]
    /\ checkpoints' = {}
    /\ transactions' = {}
    /\ simulated' = {}
    /\ diagnosed' = {}
    /\ printed' = {}
    /\ requests' = {}

\* Connection::open and db.prepare, which fails when table metadata does
\* not exist.
StartRows(cmd) ==
    /\ Idle
    /\ command' = cmd
    /\ ResetReadBack
    /\ UNCHANGED <<storeVars, minerVars, twiceVars, holderVars>>
    /\ \/ /\ rows' = <<>>
          /\ Exit("StoreError")
       \/ /\ "metadata" \in schema
          /\ rows' = SelectAddresses(metadata)
          /\ pc' = "rows"
          /\ result' = "none"

\* rows.next() is None: Ok(()).
FinishRows(cmd) ==
    /\ command = cmd
    /\ pc = "rows"
    /\ rows = <<>>
    /\ Exit("Ok")
    /\ UNCHANGED <<storeVars, command, minerVars, twiceVars, readVars>>

\* rows.next() is a row: `let mut tries = 0` and into the retry loop.
NextRow(cmd) ==
    /\ command = cmd
    /\ pc = "rows"
    /\ rows # <<>>
    /\ metadata_address' = Head(rows)
    /\ rows' = Tail(rows)
    /\ tries' = 0
    /\ account' = NoAccount
    /\ outcome' = [outcome EXCEPT ![Head(rows)] = "Fetching"]
    /\ pc' = "fetch"
    /\ UNCHANGED <<storeVars, command, result, minerVars, twiceVars, holderVars,
                   fetches, diagnosed, rescueVars, requests>>

\* `break None` after the eprintln: the `if let Some(account)` body is
\* skipped and the loop over the rows goes on.
FetchGivesUpAborts ==
    /\ account' = NoAccount
    /\ outcome' = [outcome EXCEPT ![metadata_address] = "Failed"]
    /\ diagnosed' = diagnosed \cup {metadata_address}
    /\ Exit("NetworkError")
FetchGivesUp ==
    /\ account' = NoAccount
    /\ outcome' = [outcome EXCEPT ![metadata_address] = "Failed"]
    /\ diagnosed' = diagnosed \cup {metadata_address}
    /\ pc' = "rows"
    /\ UNCHANGED result

\* One turn of the retry loop: tries += 1 and rpc.get_account.
Fetch(cmd) ==
    /\ command = cmd
    /\ pc = "fetch"
    /\ tries' = tries + 1
    /\ fetches' = [fetches EXCEPT ![metadata_address] = @ + 1]
    /\ requests' = requests \cup {GetAccountMethod}
    /\ \/ /\ \E data \in FetchPayloads : account' = SomeAccount(data)
          /\ outcome' = [outcome EXCEPT ![metadata_address] = "Fetched"]
          /\ pc' = "account"
          /\ UNCHANGED <<result, diagnosed>>
       \/ /\ GivesUp(tries + 1)
          /\ FetchGivesUp
       \/ /\ ~GivesUp(tries + 1)
          /\ UNCHANGED <<account, outcome, diagnosed, pc, result>>
    /\ UNCHANGED <<storeVars, command, minerVars, twiceVars, rows, holderVars,
                   metadata_address, rescueVars>>

\* ------------------------------------------------------------------------
\* rescue-slatts
\* ------------------------------------------------------------------------
RescueStart ==
    /\ StartRows("rescue_slatts")
    /\ keyfile' \in BOOLEAN
RescueFinish == FinishRows("rescue_slatts")
RescueNextRow == NextRow("rescue_slatts")
RescueFetch == Fetch("rescue_slatts")

\* Inside `if let Some(account)`: rpc.get_latest_blockhash()?, then
\* Metadata::deserialize(..)?, creators.unwrap() and the length check.
RescueValidate ==
    /\ command = "rescue_slatts"
    /\ pc = "account"
    /\ requests' = requests \cup {GetLatestBlockhashMethod}
    /\ \/ /\ UNCHANGED <<outcome, checkpoints>>
          /\ Exit("NetworkError")
       \/ /\ checkpoints' = checkpoints \cup {metadata_address}
          /\ IF ~Deserializes(account.data)
               THEN UNCHANGED outcome /\ Exit("DecodeError")
             ELSE IF ~account.data.creators.some
               THEN UNCHANGED outcome /\ Exit("Panic")
             ELSE IF ~HasExpectedCreators(account.data.creators.vec)
               THEN /\ outcome' = [outcome EXCEPT ![metadata_address] = "Skipped"]
                    /\ pc' = "rows"
                    /\ UNCHANGED result
             ELSE /\ outcome' = [outcome EXCEPT ![metadata_address] = "Valid"]
                  /\ pc' = "sign"
                  /\ UNCHANGED result
    /\ UNCHANGED <<storeVars, command, minerVars, twiceVars, rows, holderVars,
                   metadata_address, tries, account, fetches, diagnosed,
                   keyfile, transactions, simulated, printed>>

\* read_keypair_file(..)?, the new creators, the instruction and
\* Transaction::new_signed_with_payer.
RescueSign ==
    /\ command = "rescue_slatts"
    /\ pc = "sign"
    /\ UNCHANGED requests
    /\ \/ /\ ~keyfile
          /\ UNCHANGED <<outcome, transactions>>
          /\ Exit("CredentialError")
       \/ /\ keyfile
          /\ transactions' = transactions \cup
                { [metadata_address |-> metadata_address,
                   creators |-> Some(RescuedCreators(account.data.creators.vec))] }
          /\ outcome' = [outcome EXCEPT ![metadata_address] = "Signed"]
          /\ pc' = "simulate"
          /\ UNCHANGED result
    /\ UNCHANGED <<storeVars, command, minerVars, twiceVars, rows, holderVars,
                   metadata_address, tries, account, fetches, diagnosed,
                   keyfile, checkpoints, simulated, printed>>

\* rpc.simulate_transaction(&tx)? and the eprintln of its answer.
RescueSimulate ==
    /\ command = "rescue_slatts"
    /\ pc = "simulate"
    /\ requests' = requests \cup {SimulateMethod}
    /\ \/ /\ UNCHANGED <<outcome, simulated>>
          /\ Exit("NetworkError")
       \/ /\ simulated' = simulated \cup {metadata_address}
          /\ outcome' = [outcome EXCEPT ![metadata_address] = "Done"]
          /\ pc' = "rows"
          /\ UNCHANGED result
    /\ UNCHANGED <<storeVars, command, minerVars, twiceVars, rows, holderVars,
                   metadata_address, tries, account, fetches, diagnosed,
                   keyfile, checkpoints, transactions, printed>>

\* ------------------------------------------------------------------------
\* list-metadata-uris
\* ------------------------------------------------------------------------
ListStart ==
    /\ StartRows("list_metadata_uris")
    /\ UNCHANGED keyfile
ListFinish == FinishRows("list_metadata_uris")
ListNextRow == NextRow("list_metadata_uris")
ListFetch == Fetch("list_metadata_uris")

\* Inside `if let Some(account)`: Metadata::deserialize(..)? and println.
ListPrint ==
    /\ command = "list_metadata_uris"
    /\ pc = "account"
    /\ UNCHANGED requests
    /\ \/ /\ ~Deserializes(account.data)
          /\ UNCHANGED <<outcome, printed>>
          /\ Exit("DecodeError")
       \/ /\ Deserializes(account.data)
          /\ printed' = printed \cup {metadata_address}
          /\ outcome' = [outcome EXCEPT ![metadata_address] = "Done"]
          /\ pc' = "rows"
          /\ UNCHANGED result
    /\ UNCHANGED <<storeVars, command, minerVars, twiceVars, rows, holderVars,
                   metadata_address, tries, account, fetches, diagnosed,
                   keyfile, checkpoints, transactions, simulated>>

NextReadBack ==
    \/ RescueStart
    \/ RescueFinish
    \/ RescueNextRow
    \/ RescueFetch
    \/ RescueValidate
    \/ RescueSign
    \/ RescueSimulate
    \/ ListStart
    \/ ListFinish
    \/ ListNextRow
    \/ ListFetch
    \/ ListPrint

\* Any number of rescue-slatts and list-metadata-uris runs on a sqlite file
\* that mining left behind.
SpecReadBack == InitStore /\ [][NextReadBack]_vars

\* ------------------------------------------------------------------------
\* Properties of mine-metadata
\* ------------------------------------------------------------------------
Rows(t) == { t[i] : i \in DOMAIN t }
NoDuplicateRow(t) == \A i, j \in DOMAIN t : t[i] = t[j] => i = j

\* C2: a second mine-metadata run over the same scan answer, in the same
\* order, that ends as the first one did (Ok, or the same decode failure)
\* leaves tables metadata and creators row for row as the first run left
\* them, and neither table holds a row twice.
C2_Idempotent ==
    (pc = "done" /\ pass = 1 /\ result = first.result) =>
        /\ metadata = first.metadata
        /\ creators = first.creators
        /\ NoDuplicateRow(metadata)
        /\ NoDuplicateRow(creators)

\* The second run was over two accounts that carry the same mint.
C2_Witness ==
    /\ pc = "done" /\ pass = 1 /\ result = "Ok"
    /\ Len(response) = 2
    /\ response[1].data.mint = response[2].data.mint
    /\ Len(creators) > 1

\* C3: after a mine-metadata run that ends Ok, every wellformed metadata
\* account of the ledger whose creators vector holds the target creator at
\* any position has a metadata row under its address and a creators row
\* (target, address).
C3_DiscoversEveryPosition ==
    (pc = "done" /\ command = "mine_metadata" /\ result = "Ok") =>
        \A a \in DOMAIN remote :
            (/\ remote[a].wellformed
             /\ \E i \in 1..Len(remote[a].creators.vec) :
                   remote[a].creators.vec[i].address = creator_address)
            => /\ \E r \in Rows(metadata) : r.metadata_address = a
               /\ CreatorRow(creator_address, a) \in Rows(creators)

\* C4: no two rows of table metadata share a metadata_address, and no two
\* share a mint_address.
C4_UniqueKeys ==
    \A i, j \in DOMAIN metadata :
        (\/ metadata[i].metadata_address = metadata[j].metadata_address
         \/ metadata[i].mint_address = metadata[j].mint_address) => i = j

\* A run upserted two accounts of one mint, and one row is left for it.
C4_Witness ==
    /\ pc = "done" /\ command = "mine_metadata" /\ result = "Ok"
    /\ Len(response) = 2
    /\ response[1].data.mint = response[2].data.mint
    /\ Len(metadata) = 1


\* ------------------------------------------------------------------------
\* Properties of mine-holders
\* ------------------------------------------------------------------------
KnownMints == Rows(SelectMints(metadata))
HolderRowsOf(m) == { i \in DOMAIN holders : holders[i].mint_address = m }
AmountOne(answer) == { i \in DOMAIN answer : answer[i].amount = "1" }

\* C5: after a mine-holders run that ends Ok, a known mint whose largest
\* accounts held exactly one account of amount "1" has exactly one holders
\* row, with the owner unpacked from that account, whatever row it had.
C5_SingleHolder ==
    (pc = "done" /\ command = "mine_holders" /\ result = "Ok") =>
        \A m \in KnownMints :
            Cardinality(AmountOne(largest[m])) = 1 =>
                /\ Len(decoded[m]) = 1
                /\ Cardinality(HolderRowsOf(m)) = 1
                /\ \A i \in HolderRowsOf(m) :
                      holders[i].holder_address = decoded[m][1]

\* The only account of amount "1" came second, and its owner replaced
\* another holder.
C5_Witness ==
    /\ pc = "done" /\ command = "mine_holders" /\ result = "Ok"
    /\ \E m \in KnownMints :
          /\ Len(largest[m]) = 2
          /\ AmountOne(largest[m]) = {2}
          /\ \E r \in Rows(before) :
                /\ r.mint_address = m
                /\ r.holder_address # decoded[m][1]
          /\ HolderRow(m, decoded[m][1]) \in Rows(holders)

\* C6: a mint that had a holders row when the run started has one in every
\* state of the run, also in the state an aborted run leaves behind.
C6_AtomicReplace ==
    command = "mine_holders" =>
        \A r \in Rows(before) : HolderRowsOf(r.mint_address) # {}

\* C9: in mine-holders and rescue-slatts a payload that fails to decode
\* does not end the run.
C9_DecodeErrorsSkip ==
    command \in {"mine_holders", "rescue_slatts"} => result # "DecodeError"

\* C10: in mine-holders a failing fetch of the largest accounts or of a
\* token account does not end the run.
C10_NetworkErrorsAbsorbed ==
    command = "mine_holders" => result # "NetworkError"

\* ------------------------------------------------------------------------
\* Properties of rescue-slatts and list-metadata-uris
\* ------------------------------------------------------------------------
KnownAddresses == Rows(SelectAddresses(metadata))
Signed == { t.metadata_address : t \in transactions }

\* C1: a record whose every fetch failed was given up after exactly 5
\* calls of get_account.
C1_ExactlyFiveAttempts ==
    \A a \in Addrs : outcome[a] = "Failed" => fetches[a] = 5

C8_FetchFailureNotFatal ==
    command = "rescue_slatts" =>
        \A a \in Addrs :
            outcome[a] = "Failed" =>
                \/ pc # "done" /\ result = "none"
                \/ /\ pc = "done" /\ result = "Ok"
                   /\ \A b \in KnownAddresses :
                         outcome[b] \in {"Failed", "Skipped", "Done"}
                \/ /\ pc = "done" /\ result \notin {"Ok", "none"}
                   /\ metadata_address # a
                   /\ outcome[metadata_address] \in {"Fetched", "Valid", "Signed"}

\* The first record's fetch was given up, the second one was remediated,
\* and the run ended Ok.
C8_Witness ==
    /\ command = "rescue_slatts" /\ pc = "done" /\ result = "Ok"
    /\ \E a, b \in Addrs :
          /\ SelectAddresses(metadata) = <<a, b>>
          /\ outcome[a] = "Failed"
          /\ fetches[a] > 1
          /\ outcome[b] = "Done"

\* ------------------------------------------------------------------------
\* Properties of the remediation itself
\* ------------------------------------------------------------------------
RECURSIVE ShareSum(_)
ShareSum(vec) ==
    IF vec = <<>> THEN 0 ELSE Head(vec).share + ShareSum(Tail(vec))

\* C11: the transaction signed for a fetched record of exactly 4 creators
\* whose shares sum to 100 carries creators whose shares sum to 100.
C11_RescuedSharesSumTo100 ==
    (/\ command = "rescue_slatts"
     /\ account.some
     /\ account.data.creators.some
     /\ Len(account.data.creators.vec) = 4
     /\ ShareSum(account.data.creators.vec) = 100)
    => \A t \in transactions :
          t.metadata_address = metadata_address =>
              ShareSum(t.creators.vec) = 100

\* C12: a rescue-slatts run whose key file cannot be read never ends Ok
\* and never simulates a transaction.
C12_CredentialErrorFatal ==
    (command = "rescue_slatts" /\ ~keyfile) =>
        /\ result # "Ok"
        /\ simulated = {}

\* C16: the blockhash is fetched only for a record that passed the length
\* check: no blockhash was fetched for a record that is Skipped.
C16_CheckpointAfterValidation ==
    command = "rescue_slatts" =>
        \A a \in Addrs : outcome[a] = "Skipped" => a \notin checkpoints

\* C17: a fetched record that deserializes with no creators vector is
\* skipped: rescue-slatts does not crash on it.
C17_AbsentCreatorsSkipped ==
    command = "rescue_slatts" => result # "Panic"

\* C18: every record that was given up or skipped was reported with a
\* diagnostic of its own.
C18_NoSilentDrop ==
    command \in {"rescue_slatts", "list_metadata_uris"} =>
        \A a \in Addrs : outcome[a] \in {"Failed", "Skipped"} => a \in diagnosed

\* C13: a step of rescue-slatts or list-metadata-uris leaves the sqlite
\* file as it was, tables and rows, and sends the node nothing but account
\* reads, blockhash reads and simulations.
C13_StoreNeutralDryRun ==
    [][command' \in {"rescue_slatts", "list_metadata_uris"} =>
          /\ UNCHANGED <<schema, metadata, creators, holders>>
          /\ requests' \subseteq {"getAccountInfo", "getLatestBlockhash",
                                  "simulateTransaction"}]_vars

\* A rescue-slatts run over a store with metadata and holders rows ended Ok
\* after a simulation.
C13_Witness ==
    /\ command = "rescue_slatts" /\ pc = "done" /\ result = "Ok"
    /\ "simulateTransaction" \in requests
    /\ simulated # {}
    /\ Len(metadata) = 2
    /\ holders # <<>>

\* The holders rows of mint m in table t.
HolderRowsIn(t, m) == { r \in Rows(t) : r.mint_address = m }

\* C14: when a mine-holders run ends Ok, a mint of table metadata whose
\* largest-accounts answer held two or more accounts of amount "1" has
\* exactly one holders row, and it names the owner of the last of these
\* accounts in the order of the answer; every one of them was fetched.
C14_LastObservedWins ==
    (pc = "done" /\ command = "mine_holders" /\ result = "Ok") =>
        \A m \in KnownMints :
            Cardinality(AmountOne(largest[m])) >= 2 =>
                /\ Len(decoded[m]) = Cardinality(AmountOne(largest[m]))
                /\ Cardinality(HolderRowsOf(m)) = 1
                /\ \A i \in HolderRowsOf(m) :
                      holders[i].holder_address = decoded[m][Len(decoded[m])]

\* Two accounts of amount "1" with different owners: the row names the
\* second owner and not the first.
C14_Witness ==
    /\ pc = "done" /\ command = "mine_holders" /\ result = "Ok"
    /\ \E m \in KnownMints :
          /\ AmountOne(largest[m]) = {1, 2}
          /\ Len(decoded[m]) = 2
          /\ decoded[m][1] # decoded[m][2]
          /\ HolderRowsIn(holders, m) = {HolderRow(m, decoded[m][2])}

\* C20: in every state of a mine-holders run, a mint whose answer held no
\* account of amount "1" (an empty answer, other amounts only, or no answer
\* because the mint is not in table metadata or was not reached) has the
\* holders rows it had when the run started.
C20_UntouchedWhenNothingQualifies ==
    command = "mine_holders" =>
        \A m \in Mints :
            AmountOne(largest[m]) = {} =>
                HolderRowsIn(holders, m) = HolderRowsIn(before, m)

\* A run ended Ok in which one mint got a new holder, another mint's answer
\* held accounts of other amounts only and its row is the one it had, and a
\* row of a mint that is not in table metadata is still there.
C20_Witness ==
    /\ pc = "done" /\ command = "mine_holders" /\ result = "Ok"
    /\ \E m \in KnownMints :
          /\ largest[m] # <<>>
          /\ AmountOne(largest[m]) = {}
          /\ HolderRowsIn(before, m) # {}
          /\ HolderRowsIn(holders, m) = HolderRowsIn(before, m)
    /\ \/ \E m \in KnownMints : HolderRowsIn(holders, m) # HolderRowsIn(before, m)
       \/ \E m \in Mints \ KnownMints : HolderRowsIn(holders, m) # {}

\* C19: every row of table creators names the metadata_address of a row of
\* table metadata.
C19_CreatorsReferToMetadata ==
    \A r \in Rows(creators) :
        \E q \in Rows(metadata) : q.metadata_address = r.metadata_address

\* The loop of mine-metadata over accounts that all decode, with no sqlite
\* failure: both upserts for each account, in order.
RECURSIVE UpsertAll(_, _, _)
UpsertAll(store, accounts, c) ==
    IF accounts = <<>>
    THEN store
    ELSE LET item == Head(accounts)
         IN  UpsertAll(
                 [metadata |-> UpsertMetadata(store.metadata, item.address,
                                              item.data.mint),
                  creators |-> UpsertCreator(store.creators, c, item.address)],
                 Tail(accounts), c)

\* C15: a mine-metadata run whose scan answer holds a malformed account does
\* not end Ok.  When it ends with the decode error, the first malformed
\* account, at position k, and all after it are still unprocessed, and
\* tables metadata and creators are what the run started with plus the
\* upserts of the accounts before k, in the order of the answer.
C15_DecodeFailureFatal ==
    (pc = "done" /\ command = "mine_metadata") =>
        /\ result = "Ok" =>
              \A k \in DOMAIN response : response[k].data.wellformed
        /\ result = "DecodeError" =>
              \E k \in DOMAIN response :
                 /\ ~response[k].data.wellformed
                 /\ \A j \in 1..(k - 1) : response[j].data.wellformed
                 /\ metadata_accounts = SubSeq(response, k, Len(response))
                 /\ [metadata |-> metadata, creators |-> creators]
                       = UpsertAll(start, SubSeq(response, 1, k - 1),
                                   creator_address)

\* The second account of the answer was malformed; the first one's rows
\* were written on top of the rows of an earlier run and stayed.
C15_Witness ==
    /\ pc = "done" /\ command = "mine_metadata" /\ result = "DecodeError"
    /\ Len(response) = 2
    /\ Len(metadata_accounts) = 1
    /\ start.metadata # <<>>
    /\ metadata # start.metadata

====
